---- MODULE Spec2Model ----
(***************************************************************************)
(* Model of the Reflection Engine component (src/App.tsx) and its two      *)
(* request clients (src/services/geminiService.ts).                        *)
(*                                                                         *)
(* One state of the model is the state of the App component between two    *)
(* browser tasks: the React state hooks, the two refs, the audio nodes the *)
(* component created, and the continuations of the async handlers that are *)
(* suspended at an await.  One action is one browser task: a user event    *)
(* with the handler it runs up to its first await, the settling of an      *)
(* awaited promise with the rest of the handler, or an audio event.        *)
(* Calls of a state setter made in one task are seen together by the next  *)
(* task (React renders between tasks).  A setter called after the unmount  *)
(* still records its value here, though no render shows it.                *)
(***************************************************************************)
EXTENDS Integers, Sequences, FiniteSets, TLC

\* ------------------------------------------------------------------ bounds
\* Accepted text submissions over one run of the model.
MaxSubmits == 2
\* handleListen invocations that get past both guards over one run.
MaxListens == 2
\* Longest byte sequence, and most channels, given to the audio pipeline on its own.
MaxBytes == 6
MaxChannels == 2

\* --------------------------------------------------------------- constants
\* A ref that holds no node (nodes are numbered from 1).
Null == 0

\* The error state when it holds null.
NoMessage == "null"

\* const availableVoices
availableVoices == {"Kore", "Puck", "Charon", "Fenrir", "Zephyr"}

\* The voices the user picks among in the model.
VoicesTried == {"Kore", "Zephyr"}

\* The two messages the component can display.
SpeakError == "Sorry, the reflection could not be spoken at this time."
GenError == "A reflection could not be generated. The engine is offline. Please try again."

\* The message getSpokenReflection throws inside its try block for a missing
\* payload.
NoAudioData == "No audio data returned from API."
\* The one message getSpokenReflection throws to its caller.
FailedSpoken == "Failed to get spoken reflection from Gemini API."
\* The one message getReflection throws to its caller.
FailedReflection == "Failed to get reflection from Gemini API."

\* Texts are sequences of characters; " " is the only whitespace used.
Texts == {<<>>, <<" ">>, <<" ", "a">>}

\* What the generation endpoint can answer: it rejects, it answers without a
\* text field, or it answers with a text.
GenResponses ==
    {[kind |-> "reject", text |-> <<>>], [kind |-> "noText", text |-> <<>>]}
    \cup {[kind |-> "text", text |-> t] : t \in {<<>>, <<" ">>, <<"r">>, <<" ", "r", " ">>}}

\* Audio payloads: a non-empty base64 string is represented by whether atob
\* accepts it and by the bytes atob yields (none for a string of whitespace).
Payloads ==
    {[wellFormed |-> FALSE, bytes |-> <<>>]}
    \cup {[wellFormed |-> TRUE, bytes |-> b] :
            b \in {<<>>, <<7>>, <<0, 128>>, <<255, 127, 1>>, <<1, 0, 255, 255>>}}

\* What the speech endpoint can answer: it rejects, it answers without inline
\* data (or with the empty string), or it answers with a payload.
SpeechResponses ==
    {[kind |-> "reject", data |-> [wellFormed |-> FALSE, bytes |-> <<>>]],
     [kind |-> "noAudio", data |-> [wellFormed |-> FALSE, bytes |-> <<>>]]}
    \cup {[kind |-> "audio", data |-> p] : p \in Payloads}

\* ------------------------------------------------------------------- state
VARIABLES
    userInput,        \* useState<string>('')
    reflection,       \* useState<string>('')
    isLoading,        \* useState<boolean>(false)
    error,            \* useState<string | null>(null)
    isSpeaking,       \* useState<boolean>(false)
    isFetchingAudio,  \* useState<boolean>(false)
    selectedVoice,    \* useState<string>('Kore')
    audioContextRef,  \* useRef<AudioContext | null>: Null or an index of contexts
    audioSourceRef,   \* useRef<AudioBufferSourceNode | null>: Null or an index of sources
    contexts,         \* every AudioContext constructed so far
    sources,          \* every AudioBufferSourceNode created so far
    listenOps,        \* handleListen calls suspended at an await
    submitOps,        \* handleSubmit calls suspended at their await
    mounted,          \* the component is mounted
    listenCount,      \* handleListen calls that got past the guards
    submitCount,      \* handleSubmit calls that got past the guard
    genRequests,      \* calls of getReflection made so far
    speechRequests,   \* calls of getSpokenReflection made so far
    pcm,              \* one call of the audio pipeline on its own, and its result
    event,            \* the task that produced this state
    effects           \* the calls that task made, in order

vars == <<userInput, reflection, isLoading, error, isSpeaking, isFetchingAudio,
          selectedVoice, audioContextRef, audioSourceRef, contexts, sources,
          listenOps, submitOps, mounted, listenCount, submitCount, event, effects,
          genRequests, speechRequests, pcm>>

\* ----------------------------------------------------------------- helpers
RECURSIVE TrimStart(_)
TrimStart(s) == IF s # <<>> /\ Head(s) = " " THEN TrimStart(Tail(s)) ELSE s

RECURSIVE TrimEnd(_)
TrimEnd(s) ==
    IF s # <<>> /\ s[Len(s)] = " " THEN TrimEnd(SubSeq(s, 1, Len(s) - 1)) ELSE s

\* String.prototype.trim
Trim(s) == TrimEnd(TrimStart(s))

Remove(seq, i) == SubSeq(seq, 1, i - 1) \o SubSeq(seq, i + 1, Len(seq))

Has(seq, x) == \E i \in 1..Len(seq) : seq[i] = x

\* The playback controller's state as the two flags give it.
Ctrl ==
    IF isSpeaking /\ isFetchingAudio THEN "Both"
    ELSE IF isSpeaking THEN "Playing"
    ELSE IF isFetchingAudio THEN "Fetching"
    ELSE "Idle"

\* A source that was started and has neither been stopped nor reached its end.
Live(s) == s.state = "playing"

LiveSources == {i \in 1..Len(sources) : Live(sources[i])}

NoAnswer == [kind |-> "none", data |-> [wellFormed |-> FALSE, bytes |-> <<>>]]

Ev(kind, outcome) ==
    [kind |-> kind, outcome |-> outcome, pre |-> Ctrl, handle |-> audioSourceRef,
     stale |-> FALSE, createdCtx |-> FALSE, nSources |-> Len(sources),
     answer |-> NoAnswer]

AppInit ==
    /\ userInput = <<>>
    /\ reflection = <<>>
    /\ isLoading = FALSE
    /\ error = NoMessage
    /\ isSpeaking = FALSE
    /\ isFetchingAudio = FALSE
    /\ selectedVoice = "Kore"
    /\ audioContextRef = Null
    /\ audioSourceRef = Null
    /\ contexts = <<>>
    /\ sources = <<>>
    /\ listenOps = <<>>
    /\ submitOps = <<>>
    /\ mounted = TRUE
    /\ listenCount = 0
    /\ submitCount = 0
    /\ genRequests = 0
    /\ speechRequests = 0
    /\ event = [kind |-> "mount", outcome |-> "", pre |-> "Idle", handle |-> Null,
                stale |-> FALSE, createdCtx |-> FALSE, nSources |-> 0,
                answer |-> NoAnswer]
    /\ effects = <<>>

Init ==
    /\ AppInit
    /\ pcm = [stage |-> "none"]

\* ------------------------------------------------------- the audio pipeline
\* atob(base64) then the byte loop of decode: the bytes, or an exception when the
\* string is not base64.
decode(base64) ==
    IF base64.wellFormed
    THEN [threw |-> FALSE, bytes |-> base64.bytes]
    ELSE [threw |-> TRUE, bytes |-> <<>>]

\* The divisor of the normalisation: channelData[i] = sample / 32768.0.
Scale == 32768

\* The two bytes read as an unsigned 16-bit integer.
Int16At_Unsigned(bytes, k) == bytes[2 * k - 1] + 256 * bytes[2 * k]

\* Element k (from 1) of new Int16Array(data.buffer): two bytes, little-endian,
\* as a signed 16-bit integer.
Int16At(bytes, k) ==
    LET u == bytes[2 * k - 1] + 256 * bytes[2 * k]
    IN  IF u >= 32768 THEN u - 65536 ELSE u

\* decodeAudioData.  new Int16Array(data.buffer) throws a RangeError on a buffer
\* of odd byte length.  frameCount is samples / numChannels, not rounded:
\* createBuffer truncates it to the buffer's length and throws on a length of
\* zero, while the loops run while i < frameCount, one more round than the
\* buffer has frames when the division leaves a remainder.  That round reads
\* sample indices up to i * numChannels + channel, past the end of the samples
\* for the last channels, and its writes fall outside the channel array and are
\* dropped.  channels are the arrays of the AudioBuffer, each sample given by
\* its numerator over Scale; reads are the sample indices (from 0) the loops
\* read, samples is the length of the Int16Array.
decodeAudioData(bytes, numChannels) ==
    IF Len(bytes) % 2 # 0
    THEN [threw |-> TRUE, channels |-> <<>>, reads |-> {}, samples |-> 0]
    ELSE LET n == Len(bytes) \div 2
             length == n \div numChannels
             rounds == (n + numChannels - 1) \div numChannels
         IN  IF length = 0
             THEN [threw |-> TRUE, channels |-> <<>>, reads |-> {}, samples |-> n]
             ELSE [threw |-> FALSE,
                   channels |-> [c \in 1..numChannels |->
                       [i \in 1..length |->
                           Int16At(bytes, (i - 1) * numChannels + c)]],
                   reads |-> {i * numChannels + c :
                                 i \in 0..(rounds - 1), c \in 0..(numChannels - 1)},
                   samples |-> n]

\* --------------------------------------------------------- request clients
\* getReflection, given what the endpoint answered: the trimmed text, or the
\* one error it throws (a rejected call, or response.text undefined).
getReflection(resp) ==
    IF resp.kind = "text"
    THEN [threw |-> FALSE, value |-> Trim(resp.text), message |-> ""]
    ELSE [threw |-> TRUE, value |-> <<>>, message |-> FailedReflection]

\* getSpokenReflection, given what the endpoint answered: the base64 payload, or
\* the error it throws.  The error for a missing payload is thrown inside the
\* try block, so the catch block replaces it by the same error as a rejected call.
getSpokenReflection(resp) ==
    LET tried ==
            IF resp.kind = "reject"
            THEN [threw |-> TRUE, value |-> resp.data, message |-> "rejected"]
            ELSE IF resp.kind = "noAudio"
            THEN [threw |-> TRUE, value |-> resp.data, message |-> NoAudioData]
            ELSE [threw |-> FALSE, value |-> resp.data, message |-> ""]
    IN  IF tried.threw
        THEN [threw |-> TRUE, value |-> tried.value, message |-> FailedSpoken]
        ELSE tried

\* ------------------------------------------------------------ the controls
\* {!isLoading && !error && reflection && (... <button onClick=handleListen>)}
ListenButtonShown == ~isLoading /\ error = NoMessage /\ reflection # <<>>

\* disabled={isLoading || isFetchingAudio}
ListenButtonEnabled == ListenButtonShown /\ ~(isLoading \/ isFetchingAudio)

\* <button type="submit" disabled={isLoading || !userInput.trim()}>
SubmitButtonEnabled == ~(isLoading \/ Trim(userInput) = <<>>)

\* <textarea disabled={isLoading}>
TextareaEnabled == ~isLoading

\* A voice selector that is disabled only while a speech request is in flight.
VoiceSelectEnabled_WhilePlaying == ~isFetchingAudio

\* <select id="voice-select" disabled={isSpeaking || isFetchingAudio}>
VoiceSelectEnabled == ~(isSpeaking \/ isFetchingAudio)

\* ------------------------------------------------------------ stopPlayback
\* stop() and disconnect() on a source node whose onended handler is left in
\* place.
StoppedSource_KeepsCallback(s) ==
    [s EXCEPT !.state = IF s.state = "playing" THEN "stopped" ELSE s.state,
              !.endedPending = s.endedPending \/ s.state = "playing",
              !.connected = FALSE]

\* stop() and disconnect() on a source node, with its onended handler removed
\* first.  A source that was playing fires its ended event on stop().
StoppedSource(s) ==
    [s EXCEPT !.onended = FALSE,
              !.state = IF s.state = "playing" THEN "stopped" ELSE s.state,
              !.endedPending = s.endedPending \/ s.state = "playing",
              !.connected = FALSE]

\* What stopPlayback reads and writes: the sources, the ref and the flag.
PlaybackState ==
    [sources |-> sources, audioSourceRef |-> audioSourceRef, isSpeaking |-> isSpeaking]

\* The calls stopPlayback makes when it finds the playback state st.
stopPlaybackCalls(st) ==
    IF st.audioSourceRef # Null
    THEN <<"onended=null", "stop", "disconnect", "audioSourceRef=null",
           "setIsSpeaking(false)">>
    ELSE <<"setIsSpeaking(false)">>

\* stopPlayback that leaves the ref pointing at the stopped source.
stopPlaybackOf_KeepsRef(st) ==
    [sources |-> IF st.audioSourceRef # Null
                 THEN [st.sources EXCEPT ![st.audioSourceRef] = StoppedSource(@)]
                 ELSE st.sources,
     audioSourceRef |-> st.audioSourceRef,
     isSpeaking |-> FALSE]

\* The playback state stopPlayback leaves when it finds st.
stopPlaybackOf(st) ==
    [sources |-> IF st.audioSourceRef # Null
                 THEN [st.sources EXCEPT ![st.audioSourceRef] = StoppedSource(@)]
                 ELSE st.sources,
     audioSourceRef |-> Null,
     isSpeaking |-> FALSE]

stopPlaybackLog == stopPlaybackCalls(PlaybackState)

stopPlayback_NoStop ==
    /\ sources' = sources
    /\ audioSourceRef' = Null
    /\ isSpeaking' = FALSE

stopPlayback ==
    LET after == stopPlaybackOf(PlaybackState)
    IN  /\ sources' = after.sources
        /\ audioSourceRef' = after.audioSourceRef
        /\ isSpeaking' = after.isSpeaking

\* Every suspended handleListen call learns that a stop happened meanwhile.
MarkStale(ops) == [i \in 1..Len(ops) |-> [ops[i] EXCEPT !.stale = TRUE]]

\* ------------------------------------------------------------ handleListen
ListenFailed_NoSetError ==
    /\ error' = error
    /\ isSpeaking' = FALSE
    /\ isFetchingAudio' = FALSE

ListenFailed_NoFinally ==
    /\ error' = SpeakError
    /\ isSpeaking' = FALSE
    /\ isFetchingAudio' = isFetchingAudio

\* The catch and finally blocks of handleListen.
ListenFailed ==
    /\ error' = SpeakError
    /\ isSpeaking' = FALSE
    /\ isFetchingAudio' = FALSE

\* The calls of the catch and finally blocks.
ListenFailedLog == <<"setError", "setIsSpeaking(false)", "setIsFetchingAudio(false)">>

\* handleListen when isSpeaking: stop, and return.
ListenToggle ==
    /\ stopPlayback
    /\ effects' = stopPlaybackLog
    /\ event' = Ev("listen", "stopped")
    /\ UNCHANGED <<userInput, reflection, isLoading, error, isFetchingAudio,
                   selectedVoice, audioContextRef, contexts, listenOps,
                   submitOps, mounted, listenCount, speechRequests, submitCount, genRequests>>

\* handleListen when isFetchingAudio: return.
ListenIgnored ==
    /\ effects' = <<>>
    /\ event' = Ev("listen", "ignored")
    /\ UNCHANGED <<userInput, reflection, isLoading, error, isSpeaking,
                   isFetchingAudio, selectedVoice, audioContextRef,
                   audioSourceRef, contexts, sources, listenOps, submitOps,
                   mounted, listenCount, speechRequests, submitCount, genRequests>>

\* handleListen making a new AudioContext on every call.
ListenBegin_AlwaysCreates(text, ctxState) ==
    LET create == TRUE
        state == IF create THEN ctxState ELSE contexts[audioContextRef].state
        ctx == IF create THEN Len(contexts) + 1 ELSE audioContextRef
        op == [pc |-> IF state = "suspended" THEN "resume" ELSE "request",
               text |-> text, voice |-> selectedVoice, ctx |-> ctx,
               createdCtx |-> create, stale |-> FALSE]
        begin == <<"setIsFetchingAudio(true)", "setError(null)">>
    IN  /\ listenCount' = listenCount + 1
        /\ UNCHANGED <<userInput, reflection, isLoading, selectedVoice,
                       audioSourceRef, sources, submitOps, mounted, submitCount,
                       genRequests>>
        /\ IF state = "throws"
           THEN /\ ListenFailed
                /\ effects' = begin \o <<"new AudioContext">> \o ListenFailedLog
                /\ event' = Ev("listen", "ctxThrows")
                /\ UNCHANGED <<audioContextRef, contexts, listenOps, speechRequests>>
           ELSE /\ isFetchingAudio' = TRUE
                /\ error' = NoMessage
                /\ isSpeaking' = isSpeaking
                /\ contexts' = IF create
                               THEN Append(contexts, [state |-> state])
                               ELSE contexts
                /\ audioContextRef' = ctx
                /\ listenOps' = Append(listenOps, op)
                /\ speechRequests' = IF state = "suspended"
                                     THEN speechRequests
                                     ELSE speechRequests + 1
                /\ effects' = begin
                              \o (IF create THEN <<"new AudioContext">> ELSE <<>>)
                              \o (IF state = "suspended"
                                  THEN <<"resume">>
                                  ELSE <<"getSpokenReflection">>)
                /\ event' = [Ev("listen", "started") EXCEPT !.createdCtx = create]

\* handleListen past its guards, up to its first await: the audio context is
\* made when the ref is empty, resumed when it is suspended, and otherwise the
\* speech request is issued.
ListenBegin(text, ctxState) ==
    LET create == audioContextRef = Null
        state == IF create THEN ctxState ELSE contexts[audioContextRef].state
        ctx == IF create THEN Len(contexts) + 1 ELSE audioContextRef
        op == [pc |-> IF state = "suspended" THEN "resume" ELSE "request",
               text |-> text, voice |-> selectedVoice, ctx |-> ctx,
               createdCtx |-> create, stale |-> FALSE]
        begin == <<"setIsFetchingAudio(true)", "setError(null)">>
    IN  /\ listenCount' = listenCount + 1
        /\ UNCHANGED <<userInput, reflection, isLoading, selectedVoice,
                       audioSourceRef, sources, submitOps, mounted, submitCount,
                       genRequests>>
        /\ IF state = "throws"
           THEN /\ ListenFailed
                /\ effects' = begin \o <<"new AudioContext">> \o ListenFailedLog
                /\ event' = Ev("listen", "ctxThrows")
                /\ UNCHANGED <<audioContextRef, contexts, listenOps, speechRequests>>
           ELSE /\ isFetchingAudio' = TRUE
                /\ error' = NoMessage
                /\ isSpeaking' = isSpeaking
                /\ contexts' = IF create
                               THEN Append(contexts, [state |-> state])
                               ELSE contexts
                /\ audioContextRef' = ctx
                /\ listenOps' = Append(listenOps, op)
                /\ speechRequests' = IF state = "suspended"
                                     THEN speechRequests
                                     ELSE speechRequests + 1
                /\ effects' = begin
                              \o (IF create THEN <<"new AudioContext">> ELSE <<>>)
                              \o (IF state = "suspended"
                                  THEN <<"resume">>
                                  ELSE <<"getSpokenReflection">>)
                /\ event' = [Ev("listen", "started") EXCEPT !.createdCtx = create]

handleListen_NoToggle(text, ctxState) ==
    IF isFetchingAudio THEN ListenIgnored
    ELSE ListenBegin(text, ctxState)

\* handleListen(text) up to its first await.  ctxState is what the browser makes
\* of a new AudioContext: "running", "suspended", or "throws" when it cannot be
\* constructed; it is read only when audioContextRef is empty.
handleListen(text, ctxState) ==
    IF isSpeaking THEN ListenToggle
    ELSE IF isFetchingAudio THEN ListenIgnored
    ELSE ListenBegin(text, ctxState)

\* A click on the listen button: onClick={() => handleListen(reflection)}.
ClickListen ==
    /\ UNCHANGED pcm
    /\ mounted
    /\ ListenButtonEnabled
    /\ isSpeaking \/ listenCount < MaxListens
    /\ \E ctxState \in {"running", "suspended", "throws"} :
          /\ audioContextRef # Null => ctxState = "running"
          /\ handleListen(reflection, ctxState)

\* await audioContext.resume() settles for the i-th suspended handleListen call:
\* the speech request is issued, or the catch and finally blocks run.
ResumeSettles(i, ok) ==
    /\ listenOps[i].pc = "resume"
    /\ UNCHANGED <<userInput, reflection, isLoading, selectedVoice, audioContextRef,
                   audioSourceRef, sources, submitOps, mounted, listenCount,
                   submitCount, genRequests>>
    /\ IF ok
       THEN /\ contexts' = [contexts EXCEPT ![listenOps[i].ctx].state = "running"]
            /\ listenOps' = [listenOps EXCEPT ![i].pc = "request"]
            /\ speechRequests' = speechRequests + 1
            /\ effects' = <<"getSpokenReflection">>
            /\ event' = [Ev("resumeSettled", "ok") EXCEPT
                           !.stale = listenOps[i].stale,
                           !.createdCtx = listenOps[i].createdCtx]
            /\ UNCHANGED <<error, isSpeaking, isFetchingAudio>>
       ELSE /\ ListenFailed
            /\ listenOps' = Remove(listenOps, i)
            /\ speechRequests' = speechRequests
            /\ effects' = ListenFailedLog
            /\ event' = [Ev("listenSettled", "resumeRejected") EXCEPT
                           !.stale = listenOps[i].stale,
                           !.createdCtx = listenOps[i].createdCtx]
            /\ UNCHANGED contexts

\* What the rest of handleListen does with the answer of the speech endpoint:
\* "ok" when a source was started, otherwise the step that threw.
ListenOutcome(resp) ==
    LET spoken == getSpokenReflection(resp)
        audioBytes == decode(spoken.value)
    IN  IF spoken.threw THEN IF resp.kind = "reject" THEN "rejected" ELSE "noAudio"
        ELSE IF audioBytes.threw THEN "badBase64"
        ELSE IF Len(audioBytes.bytes) % 2 # 0 THEN "badPcm"
        ELSE IF decodeAudioData(audioBytes.bytes, 1).threw THEN "createBufferThrows"
        ELSE "ok"

\* The source node handleListen makes, connects and starts.
NewSource(ctx, frames) ==
    [state |-> "playing", connected |-> TRUE, onended |-> TRUE,
     endedPending |-> FALSE, ctx |-> ctx, frames |-> frames]

ListenStarted_NoFinally ==
    /\ audioSourceRef' = Len(sources) + 1
    /\ isSpeaking' = TRUE
    /\ isFetchingAudio' = isFetchingAudio
    /\ error' = error

\* The end of the try block of handleListen, and its finally block.
ListenStarted ==
    /\ audioSourceRef' = Len(sources) + 1
    /\ isSpeaking' = TRUE
    /\ isFetchingAudio' = FALSE
    /\ error' = error

\* The calls of handleListen from createBufferSource on.
ListenStartedLog ==
    <<"createBuffer", "createBufferSource", "connect", "onended=", "start",
      "audioSourceRef=source", "setIsSpeaking(true)", "setIsFetchingAudio(false)">>

\* await getSpokenReflection(text, selectedVoice) settles for the i-th
\* suspended handleListen call, and the handler runs to its end.
SpeechSettles(i, resp) ==
    LET op == listenOps[i]
        outcome == ListenOutcome(resp)
        frames == IF outcome = "ok"
                  THEN Len(decodeAudioData(decode(resp.data).bytes, 1).channels[1])
                  ELSE 0
    IN  /\ op.pc = "request"
        /\ listenOps' = Remove(listenOps, i)
        /\ event' = [Ev("listenSettled", outcome) EXCEPT
                       !.stale = op.stale, !.createdCtx = op.createdCtx,
                       !.answer = resp]
        /\ UNCHANGED <<userInput, reflection, isLoading, selectedVoice,
                       audioContextRef, contexts, submitOps, mounted, listenCount,
                       speechRequests, submitCount, genRequests>>
        /\ IF outcome = "ok"
           THEN /\ sources' = Append(sources, NewSource(op.ctx, frames))
                /\ ListenStarted
                /\ effects' = ListenStartedLog
           ELSE /\ ListenFailed
                /\ effects' = ListenFailedLog
                /\ UNCHANGED <<sources, audioSourceRef>>

\* ------------------------------------------------------------ handleSubmit
\* handleSubmit when the input is blank or a submission is loading: return.
SubmitIgnored ==
    /\ effects' = <<>>
    /\ event' = Ev("submit", "ignored")
    /\ UNCHANGED <<userInput, reflection, isLoading, error, isSpeaking,
                   isFetchingAudio, selectedVoice, audioContextRef,
                   audioSourceRef, contexts, sources, listenOps, submitOps,
                   mounted, listenCount, speechRequests, submitCount, genRequests>>

\* SubmitRequest without setReflection(''): the previous reflection stays.
SubmitRequest_KeepsReflection(before) ==
    /\ isLoading' = TRUE
    /\ error' = NoMessage
    /\ reflection' = reflection
    /\ submitOps' = Append(submitOps, [text |-> userInput])
    /\ submitCount' = submitCount + 1
    /\ genRequests' = genRequests + 1
    /\ effects' = before \o <<"setIsLoading(true)", "setError(null)", "getReflection">>
    /\ event' = Ev("submit", "started")
    /\ UNCHANGED <<userInput, isFetchingAudio, selectedVoice, audioContextRef,
                   contexts, mounted, listenCount, speechRequests>>

\* handleSubmit from setIsLoading(true) to the call of getReflection; before are
\* the calls the handler made first.
SubmitRequest(before) ==
    /\ isLoading' = TRUE
    /\ error' = NoMessage
    /\ reflection' = <<>>
    /\ submitOps' = Append(submitOps, [text |-> userInput])
    /\ submitCount' = submitCount + 1
    /\ genRequests' = genRequests + 1
    /\ effects' = before \o <<"setIsLoading(true)", "setError(null)",
                              "setReflection('')", "getReflection">>
    /\ event' = Ev("submit", "started")
    /\ UNCHANGED <<userInput, isFetchingAudio, selectedVoice, audioContextRef,
                   contexts, mounted, listenCount, speechRequests>>

handleSubmit_NoStop ==
    IF Trim(userInput) = <<>> \/ isLoading
    THEN SubmitIgnored
    ELSE /\ UNCHANGED <<sources, audioSourceRef, isSpeaking, listenOps>>
         /\ SubmitRequest(<<>>)

handleSubmit_NoLoadingFlag ==
    IF Trim(userInput) = <<>> \/ isLoading
    THEN SubmitIgnored
    ELSE /\ stopPlayback
         /\ listenOps' = MarkStale(listenOps)
         /\ error' = NoMessage
         /\ reflection' = <<>>
         /\ submitOps' = Append(submitOps, [text |-> userInput])
         /\ submitCount' = submitCount + 1
         /\ genRequests' = genRequests + 1
         /\ effects' = stopPlaybackLog \o <<"setError(null)", "setReflection('')",
                                            "getReflection">>
         /\ event' = Ev("submit", "started")
         /\ UNCHANGED <<userInput, isLoading, isFetchingAudio, selectedVoice,
                        audioContextRef, contexts, mounted, listenCount, speechRequests>>

\* handleSubmit up to its await.
handleSubmit ==
    IF Trim(userInput) = <<>> \/ isLoading
    THEN SubmitIgnored
    ELSE /\ stopPlayback
         /\ listenOps' = MarkStale(listenOps)
         /\ SubmitRequest(stopPlaybackLog)

\* The form is submitted through its submit button: <form onSubmit={handleSubmit}>.
SubmitForm ==
    /\ UNCHANGED pcm
    /\ mounted
    /\ SubmitButtonEnabled
    /\ submitCount < MaxSubmits
    /\ handleSubmit

\* A handler that calls getReflection once more after a first failure.
GenSettles_Retry(i, resp) ==
    LET result == getReflection(resp)
    IN  /\ UNCHANGED <<isSpeaking, isFetchingAudio, selectedVoice, audioContextRef,
                       audioSourceRef, contexts, sources, listenOps, mounted,
                       listenCount, speechRequests, submitCount>>
        /\ IF result.threw /\ genRequests <= submitCount
           THEN /\ genRequests' = genRequests + 1
                /\ effects' = <<"getReflection">>
                /\ event' = Ev("submitSettled", "retried")
                /\ UNCHANGED <<submitOps, isLoading, error, reflection, userInput>>
           ELSE /\ submitOps' = Remove(submitOps, i)
                /\ isLoading' = FALSE
                /\ event' = Ev("submitSettled", IF result.threw THEN "failed" ELSE "ok")
                /\ genRequests' = genRequests
                /\ IF result.threw
                   THEN /\ error' = GenError
                        /\ effects' = <<"setError", "setIsLoading(false)">>
                        /\ UNCHANGED <<reflection, userInput>>
                   ELSE /\ reflection' = result.value
                        /\ userInput' = <<>>
                        /\ effects' = <<"setReflection", "setUserInput('')",
                                        "setIsLoading(false)">>
                        /\ UNCHANGED error

\* handleSubmit without its finally block: isLoading is never reset.
GenSettles_NoFinally(i, resp) ==
    LET result == getReflection(resp)
    IN  /\ submitOps' = Remove(submitOps, i)
        /\ isLoading' = isLoading
        /\ event' = Ev("submitSettled", IF result.threw THEN "failed" ELSE "ok")
        /\ UNCHANGED <<isSpeaking, isFetchingAudio, selectedVoice, audioContextRef,
                       audioSourceRef, contexts, sources, listenOps, mounted,
                       listenCount, speechRequests, submitCount, genRequests>>
        /\ IF result.threw
           THEN /\ error' = GenError
                /\ effects' = <<"setError">>
                /\ UNCHANGED <<reflection, userInput>>
           ELSE /\ reflection' = result.value
                /\ userInput' = <<>>
                /\ effects' = <<"setReflection", "setUserInput('')">>
                /\ UNCHANGED error

\* await getReflection(userInput) settles for the i-th suspended handleSubmit
\* call, and the handler runs to its end.
GenSettles(i, resp) ==
    LET result == getReflection(resp)
    IN  /\ submitOps' = Remove(submitOps, i)
        /\ isLoading' = FALSE
        /\ event' = Ev("submitSettled", IF result.threw THEN "failed" ELSE "ok")
        /\ UNCHANGED <<isSpeaking, isFetchingAudio, selectedVoice, audioContextRef,
                       audioSourceRef, contexts, sources, listenOps, mounted,
                       listenCount, speechRequests, submitCount, genRequests>>
        /\ IF result.threw
           THEN /\ error' = GenError
                /\ effects' = <<"setError", "setIsLoading(false)">>
                /\ UNCHANGED <<reflection, userInput>>
           ELSE /\ reflection' = result.value
                /\ userInput' = <<>>
                /\ effects' = <<"setReflection", "setUserInput('')", "setIsLoading(false)">>
                /\ UNCHANGED error

\* ------------------------------------------------------- the other controls
\* <textarea onChange={(e) => setUserInput(e.target.value)}>
ChangeInput(text) ==
    /\ mounted
    /\ TextareaEnabled
    /\ text # userInput
    /\ userInput' = text
    /\ effects' = <<"setUserInput">>
    /\ event' = Ev("input", "")
    /\ UNCHANGED <<reflection, isLoading, error, isSpeaking, isFetchingAudio,
                   selectedVoice, audioContextRef, audioSourceRef, contexts,
                   sources, listenOps, submitOps, mounted, listenCount,
                   speechRequests, submitCount, genRequests>>

\* <select onChange={(e) => setSelectedVoice(e.target.value)}>
ChangeVoice(voice) ==
    /\ mounted
    /\ VoiceSelectEnabled
    /\ voice \in availableVoices
    /\ voice # selectedVoice
    /\ selectedVoice' = voice
    /\ effects' = <<"setSelectedVoice">>
    /\ event' = Ev("voice", "")
    /\ UNCHANGED <<userInput, reflection, isLoading, error, isSpeaking,
                   isFetchingAudio, audioContextRef, audioSourceRef, contexts,
                   sources, listenOps, submitOps, mounted, listenCount,
                   speechRequests, submitCount, genRequests>>

\* ---------------------------------------------------------- audio events
\* The audio device reaches the end of the buffer of source s: the source is
\* finished and its ended event is queued.
SourceEnds(s) ==
    /\ Live(sources[s])
    /\ sources' = [sources EXCEPT ![s].state = "finished", ![s].endedPending = TRUE]
    /\ effects' = <<>>
    /\ event' = Ev("sourceEnds", "")
    /\ UNCHANGED <<userInput, reflection, isLoading, error, isSpeaking,
                   isFetchingAudio, selectedVoice, audioContextRef, audioSourceRef,
                   contexts, listenOps, submitOps, mounted, listenCount,
                   speechRequests, submitCount, genRequests>>

\* An onended callback that calls setIsSpeaking(false) and keeps the ref.
EndedEvent_KeepsRef(s) ==
    /\ sources[s].endedPending
    /\ sources' = [sources EXCEPT ![s].endedPending = FALSE]
    /\ event' = Ev("ended", IF sources[s].onended THEN "handled" ELSE "unhandled")
    /\ UNCHANGED <<userInput, reflection, isLoading, error, isFetchingAudio,
                   selectedVoice, audioContextRef, contexts, listenOps, submitOps,
                   mounted, listenCount, speechRequests, submitCount, genRequests,
                   audioSourceRef>>
    /\ IF sources[s].onended
       THEN /\ isSpeaking' = FALSE
            /\ effects' = <<"setIsSpeaking(false)">>
       ELSE /\ effects' = <<>>
            /\ UNCHANGED isSpeaking

\* The ended event of source s is dispatched: its onended handler, when it still
\* has one, is the closure handleListen gave it.
EndedEvent(s) ==
    /\ sources[s].endedPending
    /\ sources' = [sources EXCEPT ![s].endedPending = FALSE]
    /\ event' = Ev("ended", IF sources[s].onended THEN "handled" ELSE "unhandled")
    /\ UNCHANGED <<userInput, reflection, isLoading, error, isFetchingAudio,
                   selectedVoice, audioContextRef, contexts, listenOps, submitOps,
                   mounted, listenCount, speechRequests, submitCount, genRequests>>
    /\ IF sources[s].onended
       THEN /\ isSpeaking' = FALSE
            /\ audioSourceRef' = Null
            /\ effects' = <<"setIsSpeaking(false)", "audioSourceRef=null">>
       ELSE /\ effects' = <<>>
            /\ UNCHANGED <<isSpeaking, audioSourceRef>>

\* ----------------------------------------------------------------- unmount
\* The cleanup of the effect, run when the component unmounts.
Unmount ==
    /\ UNCHANGED pcm
    /\ mounted
    /\ mounted' = FALSE
    /\ stopPlayback
    /\ listenOps' = MarkStale(listenOps)
    /\ effects' = stopPlaybackLog
    /\ event' = Ev("unmount", "")
    /\ UNCHANGED <<userInput, reflection, isLoading, error, isFetchingAudio,
                   selectedVoice, audioContextRef, contexts, submitOps,
                   listenCount, speechRequests, submitCount, genRequests>>

\* ------------------------------------------------------------ specification
ResumeSettled == \E i \in 1..Len(listenOps), ok \in BOOLEAN : ResumeSettles(i, ok) /\ UNCHANGED pcm

SpeechSettled ==
    \E i \in 1..Len(listenOps), resp \in SpeechResponses : SpeechSettles(i, resp) /\ UNCHANGED pcm

GenSettled == \E i \in 1..Len(submitOps), resp \in GenResponses : GenSettles(i, resp) /\ UNCHANGED pcm

InputChanged == \E text \in Texts : ChangeInput(text) /\ UNCHANGED pcm

VoiceChanged == \E voice \in VoicesTried : ChangeVoice(voice) /\ UNCHANGED pcm

SourceEnded == \E s \in 1..Len(sources) : SourceEnds(s) /\ UNCHANGED pcm

EndedDispatched == \E s \in 1..Len(sources) : EndedEvent(s) /\ UNCHANGED pcm

Next ==
    \/ ClickListen
    \/ ResumeSettled
    \/ SpeechSettled
    \/ SubmitForm
    \/ GenSettled
    \/ InputChanged
    \/ VoiceChanged
    \/ SourceEnded
    \/ EndedDispatched
    \/ Unmount

Spec == Init /\ [][Next]_vars

\* Every outstanding remote call settles: the promises of resume(),
\* getSpokenReflection and getReflection are eventually resolved or rejected.
FairSpec ==
    /\ Spec
    /\ WF_vars(ResumeSettled)
    /\ WF_vars(SpeechSettled)
    /\ WF_vars(GenSettled)

\* ------------------------------------------- the audio pipeline on its own
\* decode and decodeAudioData are pure: here they are applied to every base64
\* string over a few byte values, for every channel count up to MaxChannels.
PcmBytes == {0, 127, 128, 255}

BytesUpTo(n) == UNION {[1..k -> PcmBytes] : k \in 0..n}

PipeInputs ==
    {[wellFormed |-> TRUE, bytes |-> b] : b \in BytesUpTo(MaxBytes)}
        \cup {[wellFormed |-> FALSE, bytes |-> <<>>]}

NoBuffer == [threw |-> FALSE, channels |-> <<>>, reads |-> {}, samples |-> 0]

appVars == <<userInput, reflection, isLoading, error, isSpeaking, isFetchingAudio,
             selectedVoice, audioContextRef, audioSourceRef, contexts, sources,
             listenOps, submitOps, mounted, listenCount, submitCount, event,
             effects, genRequests, speechRequests>>

PipeInit ==
    /\ AppInit
    /\ pcm \in {[stage |-> "call", base64 |-> b, numChannels |-> c,
                  decoded |-> [threw |-> FALSE, bytes |-> <<>>], buffer |-> NoBuffer] :
                     b \in PipeInputs, c \in 1..MaxChannels}

\* const audioBytes = decode(base64Audio)
PipeDecode ==
    /\ pcm.stage = "call"
    /\ pcm' = [pcm EXCEPT !.stage = "decoded", !.decoded = decode(pcm.base64)]
    /\ UNCHANGED appVars

\* await decodeAudioData(audioBytes, ctx, sampleRate, numChannels)
PipeBuild ==
    /\ pcm.stage = "decoded"
    /\ ~pcm.decoded.threw
    /\ pcm' = [pcm EXCEPT !.stage = "built",
                          !.buffer = decodeAudioData(pcm.decoded.bytes, pcm.numChannels)]
    /\ UNCHANGED appVars

PipeNext == PipeDecode \/ PipeBuild

PipeSpec == PipeInit /\ [][PipeNext]_vars

\* ================================================================== claims
FailureOutcomes ==
    {"rejected", "noAudio", "badBase64", "badPcm", "createBufferThrows",
     "resumeRejected", "ctxThrows"}

\* The state is the one a task of handleListen left that started a source.
SourceJustStarted == event.kind = "listenSettled" /\ event.outcome = "ok"

\* C1: in every reachable state at most one source that was started has neither
\* been stopped nor ended, and when handleListen has just started a source, that
\* source is the handle and no source started earlier is still live.
C1_AtMostOneLiveSource ==
    /\ Cardinality(LiveSources) <= 1
    /\ SourceJustStarted => LiveSources = {audioSourceRef}

\* C1 witness: a second source has been started after the first one played.
C1_Witness ==
    /\ SourceJustStarted
    /\ Len(sources) = 2
    /\ sources[1].state \in {"stopped", "finished"}
    /\ Live(sources[2])

\* C2 (as claimed): when a stop event (a text submission or the unmount) happened
\* while the speech request of handleListen was outstanding, the handler, once
\* the request settles, creates and starts no source and the state is not Playing.
C2_StaleResultDiscarded ==
    (event.kind = "listenSettled" /\ event.stale)
        => /\ ~Has(effects, "start")
           /\ Len(sources) = event.nSources
           /\ LiveSources = {}
           /\ ~isSpeaking

\* C3: when handleListen runs while the controller is Playing, the playback it
\* held is stopped and disconnected, the state after it is Idle with no handle,
\* and that call starts no speech operation (no resume, no request).
C3_ToggleStops ==
    (event.kind = "listen" /\ event.pre = "Playing")
        => /\ Ctrl = "Idle"
           /\ audioSourceRef = Null
           /\ event.handle # Null
           /\ ~Live(sources[event.handle])
           /\ ~sources[event.handle].connected
           /\ LiveSources = {}
           /\ listenOps = <<>>
           /\ ~Has(effects, "getSpokenReflection")
           /\ ~Has(effects, "resume")

\* C3 witness: handleListen has run while a source was playing.
C3_Witness ==
    /\ event.kind = "listen"
    /\ event.pre = "Playing"
    /\ event.handle # Null
    /\ sources[event.handle].state = "stopped"

\* C4: right after an accepted submission there is no handle, no live source and
\* the speaking flag is off, although the generation request is out; the handler
\* called stop and disconnect on the handle it found before it called
\* getReflection.
C4_SubmitStopsFirst ==
    (event.kind = "submit" /\ event.outcome = "started")
        => /\ submitOps # <<>>
           /\ LiveSources = {}
           /\ audioSourceRef = Null
           /\ ~isSpeaking
           /\ event.handle # Null =>
                 /\ ~Live(sources[event.handle])
                 /\ ~sources[event.handle].connected
           /\ event.handle # Null =>
                 \E i, j, k \in 1..Len(effects) :
                    /\ effects[i] = "stop"
                    /\ effects[j] = "disconnect"
                    /\ effects[k] = "getReflection"
                    /\ i < k /\ j < k

\* C4 witness: a submission was accepted while a source was playing.
C4_Witness ==
    /\ event.kind = "submit"
    /\ event.outcome = "started"
    /\ event.pre = "Playing"
    /\ event.handle # Null
    /\ sources[event.handle].state = "stopped"

\* C5: at most one generation request and at most one speech operation are
\* outstanding, each with its flag up, and no task starts a submission while
\* isLoading or a speech operation while isFetchingAudio.
C5_SingleFlight ==
    /\ [](/\ Len(submitOps) <= 1
          /\ Len(listenOps) <= 1
          /\ submitOps # <<>> => isLoading
          /\ listenOps # <<>> => isFetchingAudio)
    /\ [][/\ isLoading => submitCount' = submitCount /\ Len(submitOps') <= Len(submitOps)
          /\ isFetchingAudio => listenCount' = listenCount /\ Len(listenOps') <= Len(listenOps)
         ]_vars

\* C5 witness: a second submission and a second speech operation are both
\* outstanding, the first ones having settled.
C5_Witness ==
    /\ submitCount = 2 /\ Len(submitOps) = 1
    /\ listenCount = 2 /\ Len(listenOps) = 1

\* C6 (as claimed): a generation operation and a speech operation are never
\* outstanding at the same time.
C6_NeverBothOutstanding == ~(submitOps # <<>> /\ listenOps # <<>>)

\* C7 (as claimed): once the controller is Idle no source is connected to the
\* destination, none is live and the handle is empty: every way out of playback
\* stopped and disconnected the source.
C7_ReleasedWhenIdle ==
    Ctrl = "Idle" =>
        /\ audioSourceRef = Null
        /\ \A s \in 1..Len(sources) : ~Live(sources[s]) /\ ~sources[s].connected

\* The changes of the controller's state the three-state machine allows, each
\* with the tasks that may cause it.
C8_Allowed(from, to, ev) ==
    \/ from = "Idle" /\ to = "Fetching" /\ ev.kind = "listen" /\ ev.outcome = "started"
    \/ from = "Fetching" /\ to = "Playing" /\ ev.kind = "listenSettled" /\ ev.outcome = "ok"
    \/ from = "Fetching" /\ to = "Idle" /\ ev.kind = "listenSettled"
          /\ ev.outcome \in FailureOutcomes
    \/ from = "Playing" /\ to = "Idle"
          /\ \/ ev.kind = "ended" /\ ev.outcome = "handled"
             \/ ev.kind = "listen" /\ ev.outcome = "stopped"
             \/ ev.kind = "submit" /\ ev.outcome = "started"
             \/ ev.kind = "unmount"

\* C8: isFetchingAudio and isSpeaking are never both true, so the controller is
\* in exactly one of Idle, Fetching and Playing, and every change of that state
\* is Idle->Fetching by a play request, Fetching->Playing by a started source,
\* Fetching->Idle by a failure, or Playing->Idle by the end of the buffer or a
\* stop.
C8_ThreeStateMachine ==
    /\ [](Ctrl \in {"Idle", "Fetching", "Playing"})
    /\ [][Ctrl' # Ctrl => C8_Allowed(Ctrl, Ctrl', event')]_vars

\* C8 witness: the second playback of a run has ended at the end of its buffer,
\* so each of the four changes has happened.
C8_Witness ==
    /\ Ctrl = "Idle"
    /\ event.kind = "ended" /\ event.outcome = "handled"
    /\ Len(sources) = 2
    /\ \E s \in 1..Len(sources) : sources[s].state = "stopped"
    /\ error = NoMessage

\* C9 (as claimed): when the speech endpoint answers without audio, the listen
\* operation ends with the spoken-error message, Idle, without a handle, and
\* created no audio context, no buffer and no source node.
C9_NoAudioCreatesNothing ==
    (event.kind = "listenSettled" /\ event.outcome = "noAudio")
        => /\ error = SpeakError
           /\ Ctrl = "Idle"
           /\ audioSourceRef = Null
           /\ ~event.createdCtx
           /\ Len(sources) = event.nSources
           /\ ~Has(effects, "createBuffer")
           /\ ~Has(effects, "createBufferSource")

\* C9 (amended): when the speech endpoint answers without audio, the listen
\* operation ends with the spoken-error message, Idle, without a handle, and
\* created no buffer and no source node; it created an audio context only when
\* the component held none, and that context is then the only one.
C9_NoAudioCreatesNoNode ==
    (event.kind = "listenSettled" /\ event.outcome = "noAudio")
        => /\ error = SpeakError
           /\ Ctrl = "Idle"
           /\ audioSourceRef = Null
           /\ Len(sources) = event.nSources
           /\ ~Has(effects, "createBuffer")
           /\ ~Has(effects, "createBufferSource")
           /\ event.createdCtx => Len(contexts) = 1
           /\ audioContextRef # Null

\* C9 witness: the first listen operation of the component, which made the
\* audio context, got an answer without audio.
C9_Witness ==
    /\ event.kind = "listenSettled"
    /\ event.outcome = "noAudio"
    /\ event.createdCtx
    /\ listenCount = 1

\* C10: every failure of a listen operation (the context cannot be made or
\* resumed, the request is rejected or brings no audio, the payload is not
\* base64 or not whole 16-bit samples, createBuffer throws) leaves the
\* controller Idle without a handle and the error message set.
C10_FailureEndsIdle ==
    (event.kind \in {"listen", "listenSettled"} /\ event.outcome \in FailureOutcomes)
        => /\ ~isFetchingAudio
           /\ ~isSpeaking
           /\ audioSourceRef = Null
           /\ LiveSources = {}
           /\ error # NoMessage
           /\ error = SpeakError

\* C10 witness: a payload of odd byte length failed a listen operation while a
\* generation request was outstanding.
C10_Witness ==
    /\ event.kind = "listenSettled"
    /\ event.outcome = "badPcm"
    /\ event.pre = "Fetching"
    /\ isLoading

\* C11: when the generation endpoint raises an error for an accepted
\* submission, the state the failure leaves has an empty reflection, an error
\* message and isLoading false; no earlier reflection remains.
C11_SubmitFailureClearsResult ==
    (event.kind = "submitSettled" /\ event.outcome = "failed")
        => /\ reflection = <<>>
           /\ error # NoMessage
           /\ error = GenError
           /\ ~isLoading

\* A submission failed after an earlier reflection had been shown and played.
C11_Witness ==
    /\ event.kind = "submitSettled"
    /\ event.outcome = "failed"
    /\ Len(sources) >= 1
    /\ reflection = <<>>

\* C12: an accepted submission calls the generation endpoint exactly once with
\* the user's text; when the call succeeds a non-empty reflection replaces the
\* prior one, the input field is cleared and isLoading returns to false.
C12_SuccessShowsReflection ==
    /\ (event.kind = "submit" /\ event.outcome = "started")
          => /\ Len(SelectSeq(effects, LAMBDA c : c = "getReflection")) = 1
             /\ Len(submitOps) = 1
             /\ submitOps[1].text = userInput
             /\ Trim(userInput) # <<>>
    /\ (event.kind = "submitSettled" /\ event.outcome = "ok")
          => /\ reflection # <<>>
             /\ userInput = <<>>
             /\ ~isLoading

\* The calls among log that are made on an audio source node.
SourceCalls(log) == SelectSeq(log, LAMBDA c : c \in {"onended=null", "stop", "disconnect"})

\* C13: stop is idempotent.  stopPlayback invoked when the controller is Idle
\* changes no state (the handle stays null, isSpeaking stays false,
\* isFetchingAudio, error and reflection are unchanged, no call is made on any
\* audio source), and from any state two invocations in a row leave the state
\* that one invocation leaves.
C13_StopIdempotent ==
    /\ [](LET once == stopPlaybackOf(PlaybackState)
          IN  /\ stopPlaybackOf(once) = once
              /\ SourceCalls(stopPlaybackCalls(once)) = <<>>
              /\ Ctrl = "Idle"
                    => /\ audioSourceRef = Null
                       /\ once = PlaybackState
                       /\ SourceCalls(stopPlaybackCalls(PlaybackState)) = <<>>)
    /\ [][(mounted /\ ~mounted' /\ Ctrl = "Idle")
            => /\ UNCHANGED <<sources, audioSourceRef, isSpeaking,
                              isFetchingAudio, error, reflection>>
               /\ audioSourceRef' = Null
               /\ SourceCalls(effects') = <<>>]_vars

\* The cleanup called stopPlayback in Idle, after a source had been played.
C13_Witness ==
    /\ event.kind = "unmount"
    /\ event.pre = "Idle"
    /\ Len(sources) >= 1
    /\ audioSourceRef = Null
    /\ ~isSpeaking

\* C14: a payload whose decoded byte length is odd is not an error: the
\* trailing odd byte is dropped, and the remaining floor(byteLength / 2) samples
\* are produced and played.
C14_OddLengthTruncated ==
    (/\ event.kind = "listenSettled"
     /\ event.answer.kind = "audio"
     /\ event.answer.data.wellFormed
     /\ Len(event.answer.data.bytes) % 2 = 1)
        => /\ event.outcome = "ok"
           /\ Len(sources) = event.nSources + 1
           /\ sources[Len(sources)].frames = Len(event.answer.data.bytes) \div 2
           /\ isSpeaking

\* C15: for every byte sequence of even length and every channel count C >= 1,
\* decode followed by decodeAudioData yields exactly C channel arrays, each of
\* length floor(byteLength / 2 / C), where frame i of channel c is interleaved
\* sample i * C + c; remainder samples are dropped and no sample index outside
\* the samples is read.
C15_FramesPerChannel ==
    (pcm.stage = "built" /\ Len(pcm.decoded.bytes) % 2 = 0)
        => LET C == pcm.numChannels
               bytes == pcm.decoded.bytes
               buffer == pcm.buffer
           IN  /\ ~buffer.threw
               /\ Len(buffer.channels) = C
               /\ \A c \in 1..C :
                     /\ Len(buffer.channels[c]) = (Len(bytes) \div 2) \div C
                     /\ \A i \in 1..Len(buffer.channels[c]) :
                           buffer.channels[c][i] = Int16At(bytes, (i - 1) * C + c)
               /\ \A r \in buffer.reads : r < buffer.samples

\* C16: every sample written into the audio buffer is a signed 16-bit value s
\* over 32768, so it lies in [-1.0, 1.0): -32768 <= s < 32768, where -1.0 is
\* attained only by the sample -32768 (bytes 0x00 0x80) and 1.0 is never
\* attained.
C16_NormalizedRange ==
    (pcm.stage = "built" /\ ~pcm.buffer.threw)
        => \A c \in 1..Len(pcm.buffer.channels) :
              \A i \in 1..Len(pcm.buffer.channels[c]) :
                 LET s == pcm.buffer.channels[c][i]
                     k == (i - 1) * pcm.numChannels + c
                 IN  /\ -Scale <= s
                     /\ s < Scale
                     /\ s = -Scale <=> (/\ pcm.decoded.bytes[2 * k - 1] = 0
                                        /\ pcm.decoded.bytes[2 * k] = 128)

\* A buffer was built that holds the least and the greatest 16-bit sample.
C16_Witness ==
    /\ pcm.stage = "built"
    /\ ~pcm.buffer.threw
    /\ pcm.numChannels = 1
    /\ pcm.decoded.bytes = <<0, 128, 255, 127>>
    /\ pcm.buffer.channels = <<(<<-32768, 32767>>)>>

\* C17: the speech request client signals an answer without an audio payload
\* as a failure distinguishable from a transport failure: the error
\* getSpokenReflection throws for a missing payload differs from the error it
\* throws when the remote call rejects.
C17_EmptyResultDistinct ==
    (event.kind = "listenSettled" /\ event.answer.kind = "noAudio")
        => LET missing == getSpokenReflection(event.answer)
           IN  /\ missing.threw
               /\ \A resp \in SpeechResponses :
                     resp.kind = "reject"
                        => /\ getSpokenReflection(resp).threw
                           /\ getSpokenReflection(resp).message # missing.message

\* C18: the selected voice cannot change while playback is active or a speech
\* request is in flight: whenever isSpeaking or isFetchingAudio is true the
\* voice selector is disabled and no step changes selectedVoice, and the voice
\* sent with the outstanding speech request is the selected voice; so the
\* selected voice at the end of a Fetching/Playing episode is the voice that
\* was sent.
C18_VoiceFixedWhileActive ==
    /\ []((isSpeaking \/ isFetchingAudio)
            => /\ ~VoiceSelectEnabled
               /\ \A i \in 1..Len(listenOps) : listenOps[i].voice = selectedVoice)
    /\ [][(isSpeaking \/ isFetchingAudio) => selectedVoice' = selectedVoice]_vars

\* A voice other than the initial one was chosen and sent, and its audio is
\* being played.
C18_Witness ==
    /\ isSpeaking
    /\ audioSourceRef # Null
    /\ selectedVoice = "Zephyr"
    /\ event.kind = "listenSettled"
    /\ event.outcome = "ok"

\* The suspended handleListen calls that have not issued their request yet.
AwaitingResume == {i \in 1..Len(listenOps) : listenOps[i].pc = "resume"}

\* C19: no request is retried automatically.  The requests issued never exceed
\* the accepted submit and listen actions; a step issues at most one request of
\* a kind, for a user action accepted in that step or, for a speech request,
\* for the listen action whose resume() it waited for; and the step in which a
\* request settles, failed or not, issues no request.
C19_NoAutomaticRetry ==
    /\ [](/\ genRequests <= submitCount
          /\ speechRequests + Cardinality(AwaitingResume) <= listenCount)
    /\ [][/\ genRequests' # genRequests
                => genRequests' = genRequests + 1 /\ submitCount' = submitCount + 1
          /\ speechRequests' # speechRequests
                => /\ speechRequests' = speechRequests + 1
                   /\ \/ listenCount' = listenCount + 1
                      \/ /\ listenCount' = listenCount
                         /\ Cardinality(AwaitingResume') = Cardinality(AwaitingResume) - 1
          /\ event'.kind \in {"submitSettled", "listenSettled"}
                => genRequests' = genRequests /\ speechRequests' = speechRequests
         ]_vars

\* The second generation request failed; every accepted submission and every
\* accepted listen action has issued one request, and none is outstanding.
C19_Witness ==
    /\ event.kind = "submitSettled"
    /\ event.outcome = "failed"
    /\ submitCount = 2
    /\ genRequests = 2
    /\ listenCount >= 1
    /\ speechRequests = listenCount
    /\ submitOps = <<>>
    /\ listenOps = <<>>

\* C20: the UI remains interactive after any failure.  When every outstanding
\* remote request eventually settles, every state with isLoading or
\* isFetchingAudio true is followed by a state in which both are false; and in
\* every state in which both are false the text field is enabled and a
\* submission of a non-blank input is accepted, whether or not an error is
\* shown.
C20_StaysInteractive ==
    /\ (isLoading \/ isFetchingAudio) ~> (~isLoading /\ ~isFetchingAudio)
    /\ []((~isLoading /\ ~isFetchingAudio)
            => /\ TextareaEnabled
               /\ Trim(userInput) # <<>>
                     => /\ SubmitButtonEnabled
                        /\ ~(Trim(userInput) = <<>> \/ isLoading)
                        /\ (mounted /\ submitCount < MaxSubmits) => ENABLED SubmitForm)

\* A request has failed, its message is shown, nothing is outstanding, and the
\* submission of the text in the field is accepted.
C20_Witness ==
    /\ event.outcome \in FailureOutcomes \cup {"failed"}
    /\ error # NoMessage
    /\ ~isLoading
    /\ ~isFetchingAudio
    /\ mounted
    /\ Trim(userInput) # <<>>
    /\ ENABLED SubmitForm

\* What a click on the play/stop control does: handleListen stops when
\* isSpeaking, returns when isFetchingAudio, and otherwise begins a listen
\* operation; the icon follows isSpeaking.
ListenButtonActs ==
    IF isSpeaking THEN "Stop" ELSE IF isFetchingAudio THEN "none" ELSE "Listen"

\* C21: the play/stop control reflects the playback state machine in every
\* state of the mounted component: when Playing it is rendered, enabled and
\* acts as Stop; when Fetching it is disabled; when Idle with a displayed
\* reflection it is enabled and acts as Listen.
C21_ControlReflectsPlayback ==
    mounted
        => /\ isSpeaking
                 => /\ ListenButtonShown
                    /\ ListenButtonEnabled
                    /\ ListenButtonActs = "Stop"
           /\ Ctrl = "Fetching" => ~ListenButtonEnabled
           /\ (Ctrl = "Idle" /\ ListenButtonShown)
                 => /\ ListenButtonEnabled
                    /\ ListenButtonActs = "Listen"

\* C22 (as claimed): in every state between event handlers of the mounted
\* component, isSpeaking is true if and only if audioSourceRef holds a live
\* source.
C22_FlagIffLiveHandle ==
    mounted
        => (isSpeaking <=> (audioSourceRef # Null /\ Live(sources[audioSourceRef])))

\* C22 (amended): in every state between event handlers of the mounted
\* component, isSpeaking is true if and only if audioSourceRef holds a source,
\* and the source it holds is playing or has reached the end of its buffer with
\* its ended event, and the onended callback, still to be dispatched.
C22_FlagIffHandle ==
    mounted
        => /\ isSpeaking <=> audioSourceRef # Null
           /\ audioSourceRef # Null
                 => \/ Live(sources[audioSourceRef])
                    \/ /\ sources[audioSourceRef].state = "finished"
                       /\ sources[audioSourceRef].endedPending
                       /\ sources[audioSourceRef].onended

\* The source held by the ref has played to its end and its ended event is
\* not dispatched yet: the flag and the ref are both still set.
C22_Witness ==
    /\ mounted
    /\ isSpeaking
    /\ audioSourceRef # Null
    /\ sources[audioSourceRef].state = "finished"
    /\ sources[audioSourceRef].endedPending

\* C23: a manually stopped source never affects later state.  stopPlayback
\* detaches the onended callback of a source before it stops it, so no stopped
\* source has a callback and the end event of a stopped source runs none; the
\* only end callback that ever runs belongs to the source the ref holds, which
\* was not stopped, so no callback of an earlier source clears the handle or
\* the isSpeaking flag of a later playback.
C23_StoppedSourceIsSilent ==
    /\ [](/\ \A s \in 1..Len(sources) :
                (sources[s].state = "stopped" \/ ~sources[s].connected)
                    => ~sources[s].onended
          /\ \A j \in 1..Len(effects) :
                effects[j] = "stop"
                    => \E k \in 1..(j - 1) : effects[k] = "onended=null")
    /\ [][event'.kind = "ended"
            => \A s \in 1..Len(sources) :
                  (sources[s].endedPending /\ ~sources'[s].endedPending)
                     => IF event'.outcome = "handled"
                        THEN /\ sources[s].state = "finished"
                             /\ sources[s].onended
                             /\ audioSourceRef = s
                        ELSE /\ ~sources[s].onended
                             /\ UNCHANGED <<audioSourceRef, isSpeaking>>]_vars

\* The end event of a source stopped by hand was dispatched during a later
\* playback, which goes on.
C23_Witness ==
    /\ event.kind = "ended"
    /\ event.outcome = "unhandled"
    /\ isSpeaking
    /\ audioSourceRef # Null
    /\ Live(sources[audioSourceRef])
    /\ \E s \in 1..Len(sources) :
          /\ s # audioSourceRef
          /\ sources[s].state = "stopped"
          /\ ~sources[s].endedPending

\* C24: the audio context is acquired lazily and at most once.  No audio
\* context exists before the first listen request that passes the guards, at
\* most one is ever created, it is created only by such a listen request, and
\* every later listen request, speech operation and source uses that same
\* context, whatever failed or was stopped before.
C24_OneLazyContext ==
    /\ [](/\ Len(contexts) <= 1
          /\ listenCount = 0 => (contexts = <<>> /\ audioContextRef = Null)
          /\ audioContextRef = Null <=> contexts = <<>>
          /\ \A i \in 1..Len(listenOps) : listenOps[i].ctx = audioContextRef
          /\ \A s \in 1..Len(sources) : sources[s].ctx = audioContextRef
          /\ (event.kind = "listen" /\ event.outcome = "started")
                => (event.createdCtx <=> Len(SelectSeq(effects,
                                            LAMBDA c : c = "new AudioContext")) = 1))
    /\ [][/\ audioContextRef # Null => audioContextRef' = audioContextRef
          /\ Len(contexts') # Len(contexts)
                => /\ contexts = <<>>
                   /\ Len(contexts') = 1
                   /\ listenCount' = listenCount + 1]_vars

\* A second listen request began after the first had failed, and found the
\* context the first had made.
C24_Witness ==
    /\ event.kind = "listen"
    /\ event.outcome = "started"
    /\ ~event.createdCtx
    /\ listenCount = 2
    /\ sources = <<>>
    /\ Len(contexts) = 1
    /\ audioContextRef = 1

====
